---- MODULE Spec2Model ----
(***************************************************************************)
(* Model of src/src/lib.rs: the wasm entry point `compress` and its        *)
(* helpers resize_image, quantify_png_with_rgba,                           *)
(* quantify_png_with_color_index and quantify_and_get_platte_and_indexes.  *)
(*                                                                         *)
(* One call of compress is followed statement by statement.  The codecs    *)
(* of the image crate and the imagequant quantizer are consumed at their   *)
(* interface: a byte buffer is a sequence of bytes whose first byte is the *)
(* magic header, what the buffer decodes to is fixed with the input        *)
(* (`content`), and the length of an encoder's output is any length.       *)
(* The resize factor (f32) is kept in hundredths: resize_percent = 50 is   *)
(* the f32 nearest to 0.5; the scaling of a side is computed in f32.       *)
(***************************************************************************)
EXTENDS Integers, Sequences, FiniteSets, TLC

VARIABLES
    bytes,           \* compress: bytes, the input buffer
    quality,         \* compress: quality (u8)
    resize_percent,  \* compress: resize_percent, in hundredths (100 is 1.0)
    content,         \* what the decoders make of bytes
    pc,              \* position in compress
    image,           \* compress: image (line 24, then line 26)
    format,          \* compress: format (line 28)
    output,          \* compress: output (line 31)
    result,          \* the Ok value returned to the caller
    err,             \* the Err value returned to the caller
    png,             \* what quantify_png_with_color_index hands to png::Encoder
    jpeg,            \* what the JPEG arm hands to JpegEncoder::write_image
    srcFrames,       \* frames collected from GifDecoder (line 51)
    outFrames,       \* frames built so far by the map closure (lines 55-61)
    gif,             \* what the GIF arm hands to GifEncoder
    resizeReqs       \* target sizes resize_image has asked image.resize for

vars == <<bytes, quality, resize_percent, content, pc, image, format, output,
          result, err, png, jpeg, srcFrames, outFrames, gif, resizeReqs>>

----------------------------------------------------------------------------
(* Bounds of the model *)

MaxBody == 2
MaxDim == 2
MaxFrames == 2
NumPatterns == 2

----------------------------------------------------------------------------
(* Inputs *)

Min(a, b) == IF a <= b THEN a ELSE b
Max(a, b) == IF a >= b THEN a ELSE b

\* Bytes after the first byte of an input buffer.
Bodies == UNION {[1..n -> {0, 1}] : n \in 0..MaxBody}

\* First bytes: the magic of PNG (0x89), JPEG (0xFF), GIF ('G'), WebP ('R' of
\* RIFF), BMP ('B', a container the crate detects and compress does not
\* handle), and 0 (no known magic).
FirstBytes == {137, 255, 71, 82, 66, 0}

Inputs == {<<>>} \cup {<<m>> \o b : m \in FirstBytes, b \in Bodies}

Qualities == {0, 80, 100, 101}

\* resize_percent in hundredths: 0.25, 0.5, 0.75, 1.0
Factors == {25, 50, 75, 100}

Delays == {0, 10}

\* image::guess_format: the container named by the magic header, "None" when
\* no header matches.
guess_format(b) ==
    IF Len(b) = 0 THEN "None"
    ELSE CASE b[1] = 137 -> "Png"
           [] b[1] = 255 -> "Jpeg"
           [] b[1] = 71  -> "Gif"
           [] b[1] = 82  -> "WebP"
           [] b[1] = 66  -> "Bmp"
           [] OTHER      -> "None"

ColorTable ==
    << [r |-> 255, g |-> 0,   b |-> 0,   a |-> 255],
       [r |-> 0,   g |-> 128, b |-> 255, a |-> 128],
       [r |-> 10,  g |-> 20,  b |-> 30,  a |-> 0] >>

\* Pixel i of a decoded raster of pattern pat; an Rgb8 raster has no alpha
\* (into_rgba8 makes it opaque).
Pixel(pat, i, color) ==
    LET c == ColorTable[((i * pat) % Len(ColorTable)) + 1]
    IN  IF color = "Rgb8" THEN [c EXCEPT !.a = 255] ELSE c

Raster(w, h, color, pat) ==
    [w |-> w, h |-> h, color |-> color,
     px |-> [i \in 1..(w * h) |-> Pixel(pat, i, color)]]

NoImage == [w |-> 0, h |-> 0, color |-> "None", px |-> <<>>]

NoContent ==
    [decode |-> "corrupt", w |-> 1, h |-> 1, color |-> "Rgb8", pat |-> 1,
     nframes |-> 1, delay |-> 0]

\* What the decoders can make of a buffer of the given container.
Contents(fmt) ==
    LET Colors == CASE fmt = "Jpeg" -> {"Rgb8"}
                    [] fmt = "Gif"  -> {"Rgba8"}
                    [] OTHER        -> {"Rgb8", "Rgba8"}
        Fails  == CASE fmt = "Bmp" -> {"corrupt", "nodecoder"}
                    [] fmt = "Gif" -> {"corrupt", "truncated"}
                    [] OTHER       -> {"corrupt"}
        NF     == IF fmt = "Gif" THEN 1..MaxFrames ELSE {1}
        DL     == IF fmt = "Gif" THEN Delays ELSE {0}
    IN  IF fmt = "None" THEN {NoContent}
        ELSE {[NoContent EXCEPT !.decode = d] : d \in Fails}
             \cup {[decode |-> "ok", w |-> w, h |-> h, color |-> c, pat |-> p,
                    nframes |-> n, delay |-> d] :
                       w \in 1..MaxDim, h \in 1..MaxDim, c \in Colors,
                       p \in 1..NumPatterns, n \in NF, d \in DL}

\* Frame k of the animation (still images have the one frame).
SourceFrame(c, k) ==
    [buffer |-> Raster(c.w, c.h, c.color, c.pat + k - 1),
     delay |-> c.delay * k, left |-> 0, top |-> 0]

\* image::load_from_memory: guess the format, then decode with it.
load_from_memory(b, c) ==
    IF guess_format(b) = "None" THEN [ok |-> FALSE, err |-> "Unsupported", image |-> NoImage]
    ELSE IF c.decode = "nodecoder" THEN [ok |-> FALSE, err |-> "Unsupported", image |-> NoImage]
    ELSE IF c.decode = "corrupt" THEN [ok |-> FALSE, err |-> "Decoding", image |-> NoImage]
    ELSE [ok |-> TRUE, err |-> "", image |-> SourceFrame(c, 1).buffer]

\* GifDecoder::new(..).into_frames().collect_frames()
collect_frames(c) ==
    IF c.decode = "ok"
    THEN [ok |-> TRUE, frames |-> [k \in 1..c.nframes |-> SourceFrame(c, k)]]
    ELSE [ok |-> FALSE, frames |-> <<>>]

----------------------------------------------------------------------------
(* resize_image, lines 80-88 *)

RECURSIVE F32Scale(_, _)
\* The f32 nearest to n/100 is m / 2^s with 2^23 <= m <= 2^24: the pair
\* <<v, s>> with v = n * 2^s and 2^23 * 100 <= v < 2^24 * 100 (n >= 1).
F32Scale(v, s) ==
    IF v >= (2 ^ 23) * 100 THEN <<v, s>> ELSE F32Scale(2 * v, s + 1)

\* Mantissa of the f32 nearest to n/100 (round to nearest, ties to even).
F32Mantissa(v) ==
    LET q == v \div 100
        r == v % 100
    IN  IF 2 * r > 100 \/ (2 * r = 100 /\ q % 2 = 1) THEN q + 1 ELSE q

RECURSIVE BitLength(_)
BitLength(i) == IF i = 0 THEN 0 ELSE 1 + BitLength(i \div 2)

\* (d as f32 * resize_percent) as u32, resize_percent being the f32 nearest
\* to n/100: the exact product d * m / 2^s is rounded to 24 significant bits
\* (nearest, ties to even) and then truncated.  The product is formed in two
\* 12-bit halves of m; d < 2^18 and n < 128.
ScaledDim(d, n) ==
    IF n = 0 \/ d = 0 THEN 0
    ELSE LET vs   == F32Scale(n, 0)
             s    == vs[2]
             m    == F32Mantissa(vs[1])
             A    == d * (m \div 4096)
             B    == d * (m % 4096)
             C    == A + (B \div 4096)
             t    == s - 12
             I    == C \div (2 ^ t)
             F    == (C % (2 ^ t)) * 4096 + (B % 4096)
             L    == BitLength(I)
             e    == s - 25 + L
             up   == IF L <= 23
                     THEN e >= 0 /\ (2 ^ s) - F <= 2 ^ e
                     ELSE 2 * F > 2 ^ s \/ (2 * F = 2 ^ s /\ I % 2 = 1)
         IN  IF up THEN I + 1 ELSE I

\* DynamicImage::resize keeps the aspect ratio and never rounds a side to 0.
Round(a, b) == (2 * a + b) \div (2 * b)

resize_dimensions(w, h, nw, nh) ==
    IF nw * h <= nh * w
    THEN <<Max(nw, 1), Max(Round(h * nw, w), 1)>>
    ELSE <<Max(Round(w * nh, h), 1), Max(nh, 1)>>

\* nearest-neighbour sampling (FilterType::Nearest)
resize(img, nw, nh) ==
    LET d  == resize_dimensions(img.w, img.h, nw, nh)
        tw == d[1]
        th == d[2]
        sx(x) == Min(((2 * x + 1) * img.w) \div (2 * tw), img.w - 1)
        sy(y) == Min(((2 * y + 1) * img.h) \div (2 * th), img.h - 1)
    IN  [w |-> tw, h |-> th, color |-> img.color,
         px |-> [i \in 1..(tw * th) |->
                   img.px[sy((i - 1) \div tw) * img.w + sx((i - 1) % tw) + 1]]]

\* The target size resize_image asks image.resize for (line 87); none when
\* resize_percent == 1.0.
ResizeRequest(img, n) ==
    IF n = 100 THEN <<>> ELSE << <<ScaledDim(img.w, n), ScaledDim(img.h, n)>> >>

resize_image(img, n) ==
    IF n = 100 THEN img
    ELSE resize(img, ScaledDim(img.w, n), ScaledDim(img.h, n))

----------------------------------------------------------------------------
(* quantify_and_get_platte_and_indexes, lines 149-178 *)

RECURSIVE Distinct(_)
\* The colours of a pixel sequence, each once, in order of first appearance.
Distinct(s) ==
    IF Len(s) = 0 THEN <<>>
    ELSE LET d == Distinct(SubSeq(s, 1, Len(s) - 1))
         IN  IF \E j \in 1..Len(d) : d[j] = s[Len(s)] THEN d
             ELSE Append(d, s[Len(s)])

\* Zero-based position of colour c in palette p.
IndexOf(p, c) == (CHOOSE j \in 1..Len(p) : p[j] = c) - 1

\* set_quality(0, quality) refuses a quality above 100 and QImage::new an
\* empty raster; otherwise the palette is the raster's colours (there are
\* never more than 256 of them here) and every pixel gets its colour's index.
quantify_and_get_platte_and_indexes(img, q) ==
    IF q > 100 \/ img.w = 0 \/ img.h = 0
    THEN [ok |-> FALSE, palette |-> <<>>, indexes |-> <<>>]
    ELSE LET p == Distinct(img.px)
         IN  [ok |-> TRUE, palette |-> p,
              indexes |-> [i \in 1..Len(img.px) |-> IndexOf(p, img.px[i])]]

----------------------------------------------------------------------------
(* quantify_png_with_rgba, lines 93-108 *)

quantify_png_with_rgba(img, q) ==
    LET r == quantify_and_get_platte_and_indexes(img, q)
    IN  IF ~r.ok THEN [ok |-> FALSE, image |-> NoImage]
        ELSE [ok |-> TRUE,
              image |-> [w |-> img.w, h |-> img.h, color |-> "Rgba8",
                         px |-> [i \in 1..Len(r.indexes) |->
                                   r.palette[r.indexes[i] + 1]]]]

----------------------------------------------------------------------------
(* quantify_png_with_color_index, lines 114-144 *)

\* palette.iter().flat_map(|rgba| [rgba.r, rgba.g, rgba.b])
rgb_palette(palette) ==
    [j \in 1..(3 * Len(palette)) |->
        LET e == palette[((j - 1) \div 3) + 1]
        IN  CASE (j - 1) % 3 = 0 -> e.r
              [] (j - 1) % 3 = 1 -> e.g
              [] OTHER           -> e.b]

\* A tRNS table that leaves out the opaque entries.
alpha_values_skip_opaque(palette) ==
    LET keep == {j \in 1..Len(palette) : palette[j].a # 255}
        n    == Cardinality(keep)
        nth(k) == CHOOSE j \in keep : Cardinality({i \in keep : i < j}) = k - 1
    IN  [k \in 1..n |-> palette[nth(k)].a]

\* palette.iter().map(|rgba| rgba.a)
alpha_values(palette) == [j \in 1..Len(palette) |-> palette[j].a]

\* What the function hands to png::Encoder (lines 131-141).
quantify_png_with_color_index(img, q) ==
    LET r == quantify_and_get_platte_and_indexes(img, q)
    IN  IF ~r.ok THEN [ok |-> FALSE, enc |-> <<>>]
        ELSE [ok |-> TRUE,
              enc |-> << [width |-> img.w, height |-> img.h,
                          palette |-> r.palette,
                          plte |-> rgb_palette(r.palette),
                          trns |-> alpha_values(r.palette),
                          color |-> "Indexed", depth |-> 8,
                          data |-> r.indexes] >>]

----------------------------------------------------------------------------
(* compress, lines 22-78 *)

\* image.as_bytes(): the channels the raster's layout declares, pixel by pixel.
as_bytes(img) ==
    LET n == IF img.color = "Rgba8" THEN 4 ELSE 3
    IN  [j \in 1..(n * Len(img.px)) |->
            LET e == img.px[((j - 1) \div n) + 1]
            IN  CASE (j - 1) % n = 0 -> e.r
                  [] (j - 1) % n = 1 -> e.g
                  [] (j - 1) % n = 2 -> e.b
                  [] OTHER           -> e.a]

\* (quality as f32 * 0.75) as u8
JpegQuality(q) == (q * 3) \div 4

\* The encoder of each arm keeps the input's container.
OutputMagicKeep(fmt) ==
    CASE fmt = "Png"  -> 137
      [] fmt = "Jpeg" -> 255
      [] fmt = "WebP" -> 82
      [] OTHER        -> 71

\* First byte written by the encoder of each arm of the match: png::Encoder,
\* JpegEncoder (for Jpeg and for WebP), GifEncoder.
OutputMagic(fmt) ==
    CASE fmt = "Png"  -> 137
      [] fmt = "Jpeg" -> 255
      [] fmt = "WebP" -> 255
      [] OTHER        -> 71

\* An encoder's output: its magic and a payload of any length.
Encoded(fmt, n) == <<OutputMagic(fmt)>> \o [i \in 1..n |-> 0]

MaxOut == MaxBody + 1

\* Frame::new(image)
Frame_new(img) == [buffer |-> img, delay |-> 0, left |-> 0, top |-> 0]

\* A collect that puts each new frame in front.
CollectReversed(acc, f) == <<f>> \o acc

\* .collect::<Vec<_>>() of the mapped frames, in iteration order
Collect(acc, f) == Append(acc, f)

\* The guard left out.
SizeGuardOff(b, out) == out

\* A guard that also substitutes at equal length.
SizeGuardGe(b, out) == IF Len(out) >= Len(b) THEN b ELSE out

\* lines 73-77
SizeGuard(b, out) == IF Len(out) > Len(b) THEN b ELSE out

Init ==
    /\ bytes \in Inputs
    /\ quality \in Qualities
    /\ resize_percent \in Factors
    /\ content \in Contents(guess_format(bytes))
    /\ pc = "load"
    /\ image = NoImage
    /\ format = "None"
    /\ output = <<>>
    /\ result = <<>>
    /\ err = ""
    /\ png = <<>>
    /\ jpeg = <<>>
    /\ srcFrames = <<>>
    /\ outFrames = <<>>
    /\ gif = <<>>
    /\ resizeReqs = <<>>

\* line 24: let image = image::load_from_memory(bytes)?;
Load ==
    /\ pc = "load"
    /\ LET r == load_from_memory(bytes, content)
       IN  IF r.ok
           THEN /\ image' = r.image
                /\ pc' = "resize"
                /\ err' = err
           ELSE /\ image' = image
                /\ pc' = "err"
                /\ err' = IF r.err = "Decoding" THEN "DecodeFailed"
                          ELSE "UnsupportedFormat"
    /\ UNCHANGED <<bytes, quality, resize_percent, content, format, output,
                   result, png, jpeg, srcFrames, outFrames, gif, resizeReqs>>

\* line 26: let image = resize_image(image, resize_percent);
Resize ==
    /\ pc = "resize"
    /\ image' = resize_image(image, resize_percent)
    /\ resizeReqs' = resizeReqs \o ResizeRequest(image, resize_percent)
    /\ pc' = "dispatch"
    /\ UNCHANGED <<bytes, quality, resize_percent, content, format, output,
                   result, err, png, jpeg, srcFrames, outFrames, gif>>

\* lines 28-33: let format = image::guess_format(bytes)?; match format
Dispatch ==
    /\ pc = "dispatch"
    /\ LET f == guess_format(bytes)
       IN  IF f = "None"
           THEN /\ format' = format
                /\ pc' = "err"
                /\ err' = "UnsupportedFormat"
           ELSE /\ format' = f
                /\ err' = err
                /\ pc' = CASE f = "Png" -> "png"
                           [] f \in {"Jpeg", "WebP"} -> "jpeg"
                           [] f = "Gif" -> "gif"
                           [] OTHER -> "other"
    /\ UNCHANGED <<bytes, quality, resize_percent, content, image, output,
                   result, png, jpeg, srcFrames, outFrames, gif, resizeReqs>>

\* lines 34-37: ImageFormat::Png
PngArm ==
    /\ pc = "png"
    /\ LET r == quantify_png_with_color_index(image, quality)
       IN  IF r.ok
           THEN /\ png' = r.enc
                /\ \E n \in 0..MaxOut : output' = Encoded(format, n)
                /\ pc' = "guard"
                /\ err' = err
           ELSE /\ png' = png
                /\ output' = output
                /\ pc' = "err"
                /\ err' = "QuantizationFailed"
    /\ UNCHANGED <<bytes, quality, resize_percent, content, image, format,
                   result, jpeg, srcFrames, outFrames, gif, resizeReqs>>

\* lines 38-47: ImageFormat::Jpeg | ImageFormat::WebP.  The raster goes to
\* the encoder with the layout it has; an encoder build that takes no alpha
\* channel answers an Rgba8 raster with an error.
JpegArm ==
    /\ pc = "jpeg"
    /\ jpeg' = << [data |-> as_bytes(image), width |-> image.w,
                   height |-> image.h, color |-> image.color,
                   quality |-> JpegQuality(quality)] >>
    /\ \/ /\ \E n \in 0..MaxOut : output' = Encoded(format, n)
          /\ pc' = "guard"
          /\ err' = err
       \/ /\ image.color = "Rgba8"
          /\ output' = output
          /\ pc' = "err"
          /\ err' = "EncodeFailed"
    /\ UNCHANGED <<bytes, quality, resize_percent, content, image, format,
                   result, png, srcFrames, outFrames, gif, resizeReqs>>

\* lines 49-51: GifDecoder::new(..)?, into_frames().collect_frames()?
GifDecode ==
    /\ pc = "gif"
    /\ LET r == collect_frames(content)
       IN  IF r.ok
           THEN /\ srcFrames' = r.frames
                /\ pc' = "gif_map"
                /\ err' = err
           ELSE /\ srcFrames' = srcFrames
                /\ pc' = "err"
                /\ err' = "DecodeFailed"
    /\ UNCHANGED <<bytes, quality, resize_percent, content, image, format,
                   output, result, png, jpeg, outFrames, gif, resizeReqs>>

\* lines 55-61: the closure of the map, on the next frame; unwrap() panics
\* on an Err of quantify_png_with_rgba.
GifFrame ==
    /\ pc = "gif_map"
    /\ Len(outFrames) < Len(srcFrames)
    /\ LET frame   == srcFrames[Len(outFrames) + 1]
           buffer  == [frame.buffer EXCEPT !.color = "Rgba8"]
           resized == resize_image(buffer, resize_percent)
           r       == quantify_png_with_rgba(resized, quality)
       IN  /\ resizeReqs' = resizeReqs \o ResizeRequest(buffer, resize_percent)
           /\ IF r.ok
              THEN /\ outFrames' = Collect(outFrames, Frame_new(r.image))
                   /\ pc' = pc
              ELSE /\ outFrames' = outFrames
                   /\ pc' = "panic"
    /\ UNCHANGED <<bytes, quality, resize_percent, content, image, format,
                   output, result, err, png, jpeg, srcFrames, gif>>

\* lines 64-66: GifEncoder, set_repeat(Repeat::Infinite), encode_frames
GifEncode ==
    /\ pc = "gif_map"
    /\ Len(outFrames) = Len(srcFrames)
    /\ gif' = << [frames |-> outFrames, repeat |-> "Infinite"] >>
    /\ \E n \in 0..MaxOut : output' = Encoded(format, n)
    /\ pc' = "guard"
    /\ UNCHANGED <<bytes, quality, resize_percent, content, image, format,
                   result, err, png, jpeg, srcFrames, outFrames, resizeReqs>>

\* lines 68-70: any other format
OtherArm ==
    /\ pc = "other"
    /\ pc' = "err"
    /\ err' = "UnsupportedFormat"
    /\ UNCHANGED <<bytes, quality, resize_percent, content, image, format,
                   output, result, png, jpeg, srcFrames, outFrames, gif,
                   resizeReqs>>

\* lines 73-77
Return ==
    /\ pc = "guard"
    /\ result' = SizeGuard(bytes, output)
    /\ pc' = "done"
    /\ UNCHANGED <<bytes, quality, resize_percent, content, image, format,
                   output, err, png, jpeg, srcFrames, outFrames, gif,
                   resizeReqs>>

Next ==
    \/ Load
    \/ Resize
    \/ Dispatch
    \/ PngArm
    \/ JpegArm
    \/ GifDecode
    \/ GifFrame
    \/ GifEncode
    \/ OtherArm
    \/ Return

Spec == Init /\ [][Next]_vars

----------------------------------------------------------------------------
(* Properties *)

Handled == {"Png", "Jpeg", "WebP", "Gif"}

\* The container each arm of the match is said to produce.
ExpectedContainer(fmt) ==
    CASE fmt = "Png" -> "Png"
      [] fmt \in {"Jpeg", "WebP"} -> "Jpeg"
      [] OTHER -> "Gif"

\* g of the frame pipeline: resize, then quantize, then reconstruct.
FrameG(buffer) ==
    quantify_png_with_rgba(resize_image(buffer, resize_percent), quality).image

\* C1: a call that returns successfully returns a buffer no longer than the
\* input, in each of the three format branches.
SizeNonRegression ==
    pc = "done" => Len(result) <= Len(bytes)

SizeNonRegressionWitness ==
    /\ pc = "done"
    /\ format = "Gif"
    /\ Len(output) > Len(bytes)
    /\ result = bytes

\* C2 as stated: whenever the encoded output is not strictly shorter than the
\* input (equal lengths included), the original bytes are returned.
SizeGuardSubstitutionAsStated ==
    (pc = "done" /\ Len(output) >= Len(bytes)) => result = bytes

\* C2 amended: when the encoded output is strictly longer than the input the
\* original bytes are returned unchanged; otherwise (equal lengths included)
\* the encoded output is returned.
SizeGuardSubstitution ==
    pc = "done" =>
        /\ Len(output) > Len(bytes) => result = bytes
        /\ Len(output) <= Len(bytes) => result = output

SizeGuardSubstitutionWitness ==
    /\ pc = "done"
    /\ Len(output) = Len(bytes)
    /\ output # bytes
    /\ result = output

\* C3 as stated: every successful call returns the container fixed by the
\* input's container (PNG -> PNG, JPEG/WebP -> JPEG, GIF -> GIF), never WebP.
OutputContainerAsStated ==
    pc = "done" =>
        /\ guess_format(result) = ExpectedContainer(guess_format(bytes))
        /\ guess_format(result) # "WebP"

\* C3 amended: a successful call returns either the original bytes (when the
\* encoded output is longer than the input, so a WebP input comes back as
\* WebP) or the encoder's output, which is an indexed PNG for PNG input, a
\* JPEG for JPEG or WebP input and an infinitely looping GIF for GIF input.
OutputContainer ==
    pc = "done" =>
        IF Len(output) > Len(bytes)
        THEN result = bytes
        ELSE /\ guess_format(result) = ExpectedContainer(guess_format(bytes))
             /\ guess_format(result) # "WebP"
             /\ guess_format(bytes) = "Png" =>
                    png # <<>> /\ png[1].color = "Indexed"
             /\ guess_format(bytes) = "Gif" =>
                    gif # <<>> /\ gif[1].repeat = "Infinite"

OutputContainerWitness ==
    /\ pc = "done"
    /\ guess_format(bytes) = "WebP"
    /\ Len(output) <= Len(bytes)
    /\ guess_format(result) = "Jpeg"

\* C4: an input whose container is none of PNG, JPEG, WebP, GIF ends the call
\* with the UnsupportedFormat error and no output bytes.
UnsupportedFormatRejection ==
    (pc \in {"done", "err", "panic"} /\ guess_format(bytes) \notin Handled) =>
        /\ pc = "err"
        /\ err = "UnsupportedFormat"
        /\ result = <<>>

\* C5: every failure is returned to the caller as an error result; no call
\* ends in a panic.
ErrorPropagation ==
    pc # "panic"

\* C6: every frame handed to the animation encoder carries the delay of the
\* source frame it was made from.
FrameTimingPreserved ==
    gif # <<>> =>
        \A i \in 1..Len(gif[1].frames) :
            i <= Len(srcFrames) => gif[1].frames[i].delay = srcFrames[i].delay

\* C7: the frames built by the map, and the frames handed to the animation
\* encoder, are g(f0)..g(fn) of the decoded frames f0..fn, one per source
\* frame and in source order.
FrameOrderPreserved ==
    /\ Len(outFrames) <= Len(srcFrames)
    /\ \A i \in 1..Len(outFrames) :
           outFrames[i].buffer = FrameG(srcFrames[i].buffer)
    /\ gif # <<>> =>
           /\ srcFrames = collect_frames(content).frames
           /\ Len(gif[1].frames) = Len(srcFrames)
           /\ \A i \in 1..Len(srcFrames) :
                  gif[1].frames[i].buffer = FrameG(srcFrames[i].buffer)

FrameOrderPreservedWitness ==
    /\ gif # <<>>
    /\ Len(srcFrames) >= 2
    /\ gif[1].frames[1].buffer # gif[1].frames[2].buffer
    /\ resize_percent # 100

\* C8: the RGB table has 3n bytes and the alpha table n bytes for a palette
\* of n <= 256 entries, entry i of each table comes from palette[i], and so
\* the alpha a pixel's index selects is the alpha of its palette entry.
PaletteSplit ==
    png # <<>> =>
        LET e == png[1]
            n == Len(e.palette)
        IN  /\ n <= 256
            /\ Len(e.plte) = 3 * n
            /\ Len(e.trns) = n
            /\ \A i \in 1..n :
                   /\ e.plte[3 * i - 2] = e.palette[i].r
                   /\ e.plte[3 * i - 1] = e.palette[i].g
                   /\ e.plte[3 * i] = e.palette[i].b
                   /\ e.trns[i] = e.palette[i].a
            /\ \A k \in 1..Len(e.data) :
                   /\ e.data[k] < n
                   /\ e.trns[e.data[k] + 1] = image.px[k].a

PaletteSplitWitness ==
    /\ png # <<>>
    /\ Len(png[1].palette) >= 3
    /\ \E i, j \in 1..Len(png[1].palette) :
           png[1].palette[i].a = 255 /\ png[1].palette[j].a = 0

\* C9: the JPEG encoder is only ever given pixel data declared without an
\* alpha channel.
JpegAlphaNarrowed ==
    jpeg # <<>> =>
        /\ jpeg[1].color = "Rgb8"
        /\ Len(jpeg[1].data) = 3 * jpeg[1].width * jpeg[1].height

\* C10: resize_image never asks the resampler for a target width or height
\* of 0.
ResizeNeverZero ==
    \A i \in 1..Len(resizeReqs) :
        resizeReqs[i][1] >= 1 /\ resizeReqs[i][2] >= 1

====
